---- MODULE Spec2Model ----
(***************************************************************************)
(* Square lattices with periodic boundaries (1, 2 and 3 dimensions), their *)
(* nearest-neighbour topology and the swap-diffusion dynamic of            *)
(* src/src/states.                                                         *)
(*                                                                         *)
(* Coordinates, offsets and the entries of the Periodicity tables are      *)
(* 0-based as in the source; TLA+ sequences are 1-based, so position k of  *)
(* a vector v is v[k + 1].  An index is a tuple of D coordinates (the 1D   *)
(* index, a bare usize in the source, is the 1-tuple <<i>>).               *)
(***************************************************************************)
EXTENDS Integers, Sequences, FiniteSets, TLC

\* Bounds of the model.
MaxLen == 3        \* largest side length passed to a constructor
MaxSites == 4      \* largest site count whose contents the mutating drivers draw
MaxWriteSites == 8 \* largest site count whose sites the mutating driver writes one by one
MaxQuerySites == 9 \* largest site count whose contents the reading driver draws
MaxSweeps == 2     \* the count of diffuse calls saturates here

\* The two-valued site type of the callers, and the supported dimensions.
Sites == {"A", "B"}
Dimensions == {1, 2, 3}

\* k.wrapping_sub(1) at k = 0 is usize::MAX = 2^64 - 1, beyond TLC's integers.
\* It is written as this marker, which like usize::MAX lies outside 0..length-1
\* for every length the model builds.
Wrapped == -1

NoLattice == [state |-> "none"]

VARIABLES
    D,              \* the dimension type parameter (Ix1, Ix2, Ix3) of the lattice
    shape,          \* the Shape (side length) handed to the constructor
    lattice,        \* the SquareLattice value: state, period, site_dist
    pc,             \* "idle", "diffuse" (inside the sweep loop) or "panicked"
    remaining,      \* iterations the loop of diffuse still has to run
    diffusion_coin, \* the Bernoulli coin of the running diffuse call
    last,           \* the last completed call: its name, arguments and result
    composition,    \* count of each site value left by the last mutation other than diffuse
    sweeps,         \* diffuse calls completed since the last other mutation
    exchanged       \* some accepted proposal of those sweeps exchanged two different values

vars == <<D, shape, lattice, pc, remaining, diffusion_coin, last,
          composition, sweeps, exchanged>>

----------------------------------------------------------------------------
\* Arithmetic helpers.

Min(a, b) == IF a <= b THEN a ELSE b

RECURSIVE Product(_)
Product(s) == IF s = <<>> THEN 1 ELSE Head(s) * Product(Tail(s))

RECURSIVE Pow(_, _)
Pow(b, e) == IF e = 0 THEN 1 ELSE b * Pow(b, e - 1)

RECURSIVE Flatten(_)
Flatten(ss) == IF ss = <<>> THEN <<>> ELSE Head(ss) \o Flatten(Tail(ss))

\* Iterator::flat_map over a sequence: f yields a sequence per item.
FlatMap(s, f(_)) == Flatten([p \in 1..Len(s) |-> f(s[p])])

\* Iterator::map over a sequence.
Map(s, f(_)) == [p \in 1..Len(s) |-> f(s[p])]

\* The range 0..n as a sequence.
Range(n) == [p \in 1..n |-> p - 1]

\* itertools cartesian_product: the last component varies fastest.
CartesianProduct(a, b) ==
    [p \in 1..(Len(a) * Len(b)) |->
        <<a[((p - 1) \div Len(b)) + 1], b[((p - 1) % Len(b)) + 1]>>]

\* Number of positions of s holding v.
Count(s, v) == Cardinality({p \in 1..Len(s) : s[p] = v})

\* Count of each site value in a sequence of sites.
Composition(s) == [v \in Sites |-> Count(s, v)]

----------------------------------------------------------------------------
\* ndarray::Array<T, D>: a dimension tuple and the elements in logical
\* (row-major) order.

\* [side_length; D]
Repeat(x, n) == [p \in 1..n |-> x]

ArrayFromElem(dim, site) == [dim |-> dim, data |-> [p \in 1..Product(dim) |-> site]]

\* Array::random_using: one draw per element; draws is the sequence drawn.
ArrayRandomUsing(dim, draws) == [dim |-> dim, data |-> draws]

ArrayLen(a) == Product(a.dim)

ArrayLenOf(a, axis) == a.dim[axis + 1]

\* Row-major offset of an index.
RECURSIVE OffsetFrom(_, _, _)
OffsetFrom(dim, idx, acc) ==
    IF idx = <<>> THEN acc
    ELSE OffsetFrom(Tail(dim), Tail(idx), acc * Head(dim) + Head(idx))

Offset(dim, idx) == OffsetFrom(dim, idx, 0)

\* The index at a row-major offset.
RECURSIVE Unravel(_, _)
Unravel(dim, off) ==
    IF dim = <<>> THEN <<>>
    ELSE LET inner == Product(Tail(dim))
         IN <<off \div inner>> \o Unravel(Tail(dim), off % inner)

InBounds(a, idx) ==
    /\ Len(idx) = Len(a.dim)
    /\ \A p \in 1..Len(idx) : idx[p] \in 0..(a.dim[p] - 1)

\* state[idx]
ArrayGet(a, idx) == a.data[Offset(a.dim, idx) + 1]

\* state[idx] = site
ArraySet(a, idx, site) == [a EXCEPT !.data[Offset(a.dim, idx) + 1] = site]

\* Array::fill
ArrayFill(a, site) == [a EXCEPT !.data = [p \in 1..Len(a.data) |-> site]]

\* Array::swap
ArraySwap(a, i1, i2) ==
    [a EXCEPT !.data = [p \in 1..Len(a.data) |->
        IF p = Offset(a.dim, i1) + 1 THEN a.data[Offset(a.dim, i2) + 1]
        ELSE IF p = Offset(a.dim, i2) + 1 THEN a.data[Offset(a.dim, i1) + 1]
        ELSE a.data[p]]]

\* Array::iter
ArrayIter(a) == a.data

\* Array::indexed_iter: (index, element) in logical order.
ArrayIndexedIter(a) ==
    [p \in 1..Len(a.data) |-> [idx |-> Unravel(a.dim, p - 1), site |-> a.data[p]]]

\* Every index of an array.
Indices(a) == {Unravel(a.dim, off) : off \in 0..(ArrayLen(a) - 1)}

----------------------------------------------------------------------------
\* Periodicity

WrappingSub1(k) == IF k = 0 THEN Wrapped ELSE k - 1

\* Periodicity::new that returns tables for every length.
PeriodicityNewNeverPanics(length) == FALSE

\* Periodicity::new panics in the write prev[0] = length - 1 when the
\* subtraction overflows (a build with overflow checks) or, the difference
\* having wrapped, when index 0 is past the end of prev; the writes to
\* next[length - 1] that follow are the same two checks.  Every build panics
\* for length = 0 and none does for a longer table.
PeriodicityNewPanics(length) ==
    LET prev0 == Map(Range(length), WrappingSub1)
    IN \/ length - 1 < 0
       \/ ~(0 < Len(prev0))

\* Periodicity::new without the boundary write to next.
PeriodicityNewOpenNext(length) ==
    LET prev0 == Map(Range(length), WrappingSub1)
        next0 == Map(Range(length), LAMBDA k : k + 1)
    IN [prev |-> [prev0 EXCEPT ![0 + 1] = length - 1],
        next |-> next0]

\* Periodicity::new with the two tables filled the other way round.
PeriodicityNewSwapped(length) ==
    LET prev0 == Map(Range(length), LAMBDA k : k + 1)
        next0 == Map(Range(length), WrappingSub1)
    IN [prev |-> [prev0 EXCEPT ![(length - 1) + 1] = 0],
        next |-> [next0 EXCEPT ![0 + 1] = length - 1]]

\* Periodicity::new, for the lengths it returns for.
PeriodicityNew(length) ==
    LET prev0 == Map(Range(length), WrappingSub1)
        next0 == Map(Range(length), LAMBDA k : k + 1)
    IN [prev |-> [prev0 EXCEPT ![0 + 1] = length - 1],
        next |-> [next0 EXCEPT ![(length - 1) + 1] = 0]]

PeriodPrev(period, k) == period.prev[k + 1]

PeriodNext(period, k) == period.next[k + 1]

\* rand Uniform::new(low, high): the half-open range low..high.
UniformNew(low, high) == [low |-> low, high |-> high]

\* The values a sample of the distribution can take.
UniformSupport(dist) == dist.low..(dist.high - 1)

----------------------------------------------------------------------------
\* SquareLattice<T, D>

Length(lat) == ArrayLenOf(lat.state, 0)

SiteCount(lat) == ArrayLen(lat.state)

SitesOf(lat) == ArrayIter(lat.state)

\* uniform with a Periodicity one entry longer than the side.
UniformLongPeriod(d, side_length, site) ==
    IF PeriodicityNewPanics(side_length) THEN NoLattice
    ELSE [state |-> ArrayFromElem(Repeat(side_length, d), site),
          period |-> PeriodicityNew(side_length + 1),
          site_dist |-> UniformNew(0, side_length)]

\* SiteState::uniform, for the dimension d.  A panic of Periodicity::new aborts
\* the construction and no lattice value exists.
Uniform(d, side_length, site) ==
    IF PeriodicityNewPanics(side_length) THEN NoLattice
    ELSE [state |-> ArrayFromElem(Repeat(side_length, d), site),
          period |-> PeriodicityNew(side_length),
          site_dist |-> UniformNew(0, side_length)]

\* SiteState::random, for the dimension d; draws are the values drawn.
Random(d, side_length, draws) ==
    IF PeriodicityNewPanics(side_length) THEN NoLattice
    ELSE [state |-> ArrayRandomUsing(Repeat(side_length, d), draws),
          period |-> PeriodicityNew(side_length),
          site_dist |-> UniformNew(0, side_length)]

\* set_uniform that writes the site at the first position only.
SetUniformOfFirst(lat, site) == [lat EXCEPT !.state.data[1] = site]

\* SiteState::set_uniform
SetUniformOf(lat, site) == [lat EXCEPT !.state = ArrayFill(lat.state, site)]

\* SiteState::set_random: sites_mut() zipped with the draws.
SetRandomOf(lat, draws) ==
    [lat EXCEPT !.state.data =
        [p \in 1..Len(lat.state.data) |->
            IF p <= Len(draws) THEN draws[p] ELSE lat.state.data[p]]]

\* Distribution<Index>::sample: the indices a sample can return.
SampleSupport(lat) ==
    {idx \in [1..Len(lat.state.dim) -> UniformSupport(lat.site_dist)] : TRUE}

----------------------------------------------------------------------------
\* SiteStateNN, one implementation per dimension.  A pair is <<a, b>>.

\* impl_1d.rs
NearestNeighborsIndexPairs1D(lat) ==
    Map(Range(SiteCount(lat)), LAMBDA i : <<<<i>>, <<PeriodNext(lat.period, i)>>>>)

NearestNeighborsIndex1D(lat, idx) ==
    LET i == idx[1]
    IN <<<<PeriodPrev(lat.period, i)>>, <<PeriodNext(lat.period, i)>>>>

NearestNeighborsPairs1D(lat) ==
    Map(ArrayIndexedIter(lat.state),
        LAMBDA e : LET i_next == PeriodNext(lat.period, e.idx[1])
                   IN <<e.site, ArrayGet(lat.state, <<i_next>>)>>)

NearestNeighbors1D(lat, idx) ==
    LET i == idx[1]
        i_prev == PeriodPrev(lat.period, i)
        i_next == PeriodNext(lat.period, i)
    IN <<ArrayGet(lat.state, <<i_prev>>), ArrayGet(lat.state, <<i_next>>)>>

\* The pairs of 2D with the second partner stepped along both axes.
NearestNeighborsIndexPairs2DDiagonal(lat) ==
    LET side_length == ArrayLenOf(lat.state, 0)
    IN FlatMap(CartesianProduct(Range(side_length), Range(side_length)),
               LAMBDA idx : LET i == idx[1]
                                j == idx[2]
                            IN << <<idx, <<i, PeriodNext(lat.period, j)>>>>,
                                  <<idx, <<PeriodNext(lat.period, i),
                                           PeriodNext(lat.period, j)>>>> >>)

\* impl_2d.rs
NearestNeighborsIndexPairs2D(lat) ==
    LET side_length == ArrayLenOf(lat.state, 0)
    IN FlatMap(CartesianProduct(Range(side_length), Range(side_length)),
               LAMBDA idx : LET i == idx[1]
                                j == idx[2]
                            IN << <<idx, <<i, PeriodNext(lat.period, j)>>>>,
                                  <<idx, <<PeriodNext(lat.period, i), j>>>> >>)

\* The neighbours of 2D with the first entry left at j instead of prev(j).
NearestNeighborsIndex2DUnstepped(lat, idx) ==
    LET i == idx[1]
        j == idx[2]
    IN << <<i, j>>,
          <<i, PeriodNext(lat.period, j)>>,
          <<PeriodPrev(lat.period, i), j>>,
          <<PeriodNext(lat.period, i), j>> >>

NearestNeighborsIndex2D(lat, idx) ==
    LET i == idx[1]
        j == idx[2]
    IN << <<i, PeriodPrev(lat.period, j)>>,
          <<i, PeriodNext(lat.period, j)>>,
          <<PeriodPrev(lat.period, i), j>>,
          <<PeriodNext(lat.period, i), j>> >>

NearestNeighborsPairs2D(lat) ==
    FlatMap(ArrayIndexedIter(lat.state),
            LAMBDA e : LET i == e.idx[1]
                           j == e.idx[2]
                       IN << <<e.site, ArrayGet(lat.state, <<i, PeriodNext(lat.period, j)>>)>>,
                             <<e.site, ArrayGet(lat.state, <<PeriodNext(lat.period, i), j>>)>> >>)

NearestNeighbors2D(lat, idx) ==
    LET i == idx[1]
        j == idx[2]
    IN << ArrayGet(lat.state, <<i, PeriodPrev(lat.period, j)>>),
          ArrayGet(lat.state, <<PeriodPrev(lat.period, i), j>>),
          ArrayGet(lat.state, <<i, PeriodNext(lat.period, j)>>),
          ArrayGet(lat.state, <<PeriodNext(lat.period, i), j>>) >>

\* impl_3d.rs
\* The pairs of 3D with the innermost axis listed twice and the middle one never.
NearestNeighborsIndexPairs3DRepeatedAxis(lat) ==
    LET side_length == ArrayLenOf(lat.state, 0)
    IN FlatMap(CartesianProduct(CartesianProduct(Range(side_length), Range(side_length)),
                                Range(side_length)),
               LAMBDA ijk : LET i == ijk[1][1]
                                j == ijk[1][2]
                                k == ijk[2]
                                idx == <<i, j, k>>
                            IN << <<idx, <<i, j, PeriodNext(lat.period, k)>>>>,
                                  <<idx, <<i, j, PeriodNext(lat.period, k)>>>>,
                                  <<idx, <<PeriodNext(lat.period, i), j, k>>>> >>)

NearestNeighborsIndexPairs3D(lat) ==
    LET side_length == ArrayLenOf(lat.state, 0)
    IN FlatMap(CartesianProduct(CartesianProduct(Range(side_length), Range(side_length)),
                                Range(side_length)),
               LAMBDA ijk : LET i == ijk[1][1]
                                j == ijk[1][2]
                                k == ijk[2]
                                idx == <<i, j, k>>
                            IN << <<idx, <<i, j, PeriodNext(lat.period, k)>>>>,
                                  <<idx, <<i, PeriodNext(lat.period, j), k>>>>,
                                  <<idx, <<PeriodNext(lat.period, i), j, k>>>> >>)

\* The neighbours of 3D in the order of nearest_neighbors: every prev, then every next.
NearestNeighborsIndex3DPrevsFirst(lat, idx) ==
    LET i == idx[1]
        j == idx[2]
        k == idx[3]
    IN << <<i, j, PeriodPrev(lat.period, k)>>,
          <<i, PeriodPrev(lat.period, j), k>>,
          <<PeriodPrev(lat.period, i), j, k>>,
          <<i, j, PeriodNext(lat.period, k)>>,
          <<i, PeriodNext(lat.period, j), k>>,
          <<PeriodNext(lat.period, i), j, k>> >>

NearestNeighborsIndex3D(lat, idx) ==
    LET i == idx[1]
        j == idx[2]
        k == idx[3]
    IN << <<i, j, PeriodPrev(lat.period, k)>>,
          <<i, j, PeriodNext(lat.period, k)>>,
          <<i, PeriodPrev(lat.period, j), k>>,
          <<i, PeriodNext(lat.period, j), k>>,
          <<PeriodPrev(lat.period, i), j, k>>,
          <<PeriodNext(lat.period, i), j, k>> >>

\* The value pairs of 3D with the axes listed outermost first.
NearestNeighborsPairs3DOuterFirst(lat) ==
    FlatMap(ArrayIndexedIter(lat.state),
            LAMBDA e : LET i == e.idx[1]
                           j == e.idx[2]
                           k == e.idx[3]
                       IN << <<e.site, ArrayGet(lat.state, <<PeriodNext(lat.period, i), j, k>>)>>,
                             <<e.site, ArrayGet(lat.state, <<i, PeriodNext(lat.period, j), k>>)>>,
                             <<e.site, ArrayGet(lat.state, <<i, j, PeriodNext(lat.period, k)>>)>> >>)

NearestNeighborsPairs3D(lat) ==
    FlatMap(ArrayIndexedIter(lat.state),
            LAMBDA e : LET i == e.idx[1]
                           j == e.idx[2]
                           k == e.idx[3]
                       IN << <<e.site, ArrayGet(lat.state, <<i, j, PeriodNext(lat.period, k)>>)>>,
                             <<e.site, ArrayGet(lat.state, <<i, PeriodNext(lat.period, j), k>>)>>,
                             <<e.site, ArrayGet(lat.state, <<PeriodNext(lat.period, i), j, k>>)>> >>)

NearestNeighbors3D(lat, idx) ==
    LET i == idx[1]
        j == idx[2]
        k == idx[3]
    IN << ArrayGet(lat.state, <<i, j, PeriodPrev(lat.period, k)>>),
          ArrayGet(lat.state, <<i, PeriodPrev(lat.period, j), k>>),
          ArrayGet(lat.state, <<PeriodPrev(lat.period, i), j, k>>),
          ArrayGet(lat.state, <<i, j, PeriodNext(lat.period, k)>>),
          ArrayGet(lat.state, <<i, PeriodNext(lat.period, j), k>>),
          ArrayGet(lat.state, <<PeriodNext(lat.period, i), j, k>>) >>

\* The implementation the type parameter d selects.
NearestNeighborsIndexPairs(d, lat) ==
    CASE d = 1 -> NearestNeighborsIndexPairs1D(lat)
      [] d = 2 -> NearestNeighborsIndexPairs2D(lat)
      [] d = 3 -> NearestNeighborsIndexPairs3D(lat)

NearestNeighborsIndex(d, lat, idx) ==
    CASE d = 1 -> NearestNeighborsIndex1D(lat, idx)
      [] d = 2 -> NearestNeighborsIndex2D(lat, idx)
      [] d = 3 -> NearestNeighborsIndex3D(lat, idx)

NearestNeighborsPairs(d, lat) ==
    CASE d = 1 -> NearestNeighborsPairs1D(lat)
      [] d = 2 -> NearestNeighborsPairs2D(lat)
      [] d = 3 -> NearestNeighborsPairs3D(lat)

NearestNeighbors(d, lat, idx) ==
    CASE d = 1 -> NearestNeighbors1D(lat, idx)
      [] d = 2 -> NearestNeighbors2D(lat, idx)
      [] d = 3 -> NearestNeighbors3D(lat, idx)

----------------------------------------------------------------------------
\* SimpleSwapDiffusion: the partners one proposal can pick for the site idx.

DiffusePartners1D(lat, idx) == {<<PeriodNext(lat.period, idx[1])>>}

\* rng.gen::<bool>() picks the axis.
DiffusePartners2D(lat, idx) ==
    LET i == idx[1]
        j == idx[2]
    IN {<<i, PeriodNext(lat.period, j)>>, <<PeriodNext(lat.period, i), j>>}

\* The partners of 3D with the middle axis stepped to prev.
DiffusePartners3DBackward(lat, idx) ==
    LET i == idx[1]
        j == idx[2]
        k == idx[3]
        direction_dist == UniformNew(0, 3)
    IN {CASE dir = 0 -> <<i, j, PeriodNext(lat.period, k)>>
          [] dir = 1 -> <<i, PeriodPrev(lat.period, j), k>>
          [] OTHER -> <<PeriodNext(lat.period, i), j, k>> : dir \in UniformSupport(direction_dist)}

\* Uniform::new(0, 3) picks the axis.
DiffusePartners3D(lat, idx) ==
    LET i == idx[1]
        j == idx[2]
        k == idx[3]
        direction_dist == UniformNew(0, 3)
    IN {CASE dir = 0 -> <<i, j, PeriodNext(lat.period, k)>>
          [] dir = 1 -> <<i, PeriodNext(lat.period, j), k>>
          [] OTHER -> <<PeriodNext(lat.period, i), j, k>> : dir \in UniformSupport(direction_dist)}

DiffusePartners(d, lat, idx) ==
    CASE d = 1 -> DiffusePartners1D(lat, idx)
      [] d = 2 -> DiffusePartners2D(lat, idx)
      [] d = 3 -> DiffusePartners3D(lat, idx)

\* Bernoulli: the outcomes a coin of probability 0, strictly between, or 1 can give.
Coins == {"never", "sometimes", "always"}

CoinOutcomes(coin) ==
    CASE coin = "never" -> {FALSE}
      [] coin = "always" -> {TRUE}
      [] OTHER -> BOOLEAN

\* The proposal that copies the partner over idx instead of swapping.
DiffuseProposalCopy(lat, idx, nn_idx, success) ==
    IF success
    THEN [lat EXCEPT !.state = ArraySet(lat.state, idx, ArrayGet(lat.state, nn_idx))]
    ELSE lat

\* The body of the loop of diffuse: swap idx and nn_idx when the coin succeeds.
DiffuseProposal(lat, idx, nn_idx, success) ==
    IF success THEN [lat EXCEPT !.state = ArraySwap(lat.state, idx, nn_idx)]
    ELSE lat

----------------------------------------------------------------------------
\* The driver: it builds one lattice and then calls its operations.

\* The draws an arbitrary distribution over Sites can give for n sites.
Draws(n) == [1..n -> Sites]

\* Initial states: the lattice as uniform(shape, site) or random(shape, dist, rng)
\* returns it (also reached through new(shape, UniformSites / RandomSites)).
\* Contents are drawn for lattices of at most max_sites sites.
InitWith(max_sites) ==
    /\ D \in Dimensions
    /\ shape \in 0..MaxLen
    /\ \/ \E site \in Sites :
            /\ lattice = Uniform(D, shape, site)
            /\ last = [op |-> "uniform", site |-> site]
       \/ /\ Pow(shape, D) <= max_sites
          /\ \E draws \in Draws(Pow(shape, D)) :
                /\ lattice = Random(D, shape, draws)
                /\ last = [op |-> "random"]
    /\ pc = IF PeriodicityNewPanics(shape) THEN "panicked" ELSE "idle"
    /\ remaining = 0
    /\ diffusion_coin = "never"
    /\ composition = IF PeriodicityNewPanics(shape) THEN [v \in Sites |-> 0]
                     ELSE Composition(SitesOf(lattice))
    /\ sweeps = 0
    /\ exchanged = FALSE

Init == InitWith(MaxSites)

\* Lattices small enough for their contents to be drawn.
Small(lat) == SiteCount(lat) <= MaxSites

\* What every mutation other than diffuse does to the bookkeeping.
Mutated(lat) ==
    /\ composition' = Composition(SitesOf(lat))
    /\ sweeps' = 0
    /\ exchanged' = FALSE

\* lattice[idx] = site (IndexMut)
IndexedWrite ==
    /\ pc = "idle"
    /\ SiteCount(lattice) <= MaxWriteSites
    /\ \E idx \in Indices(lattice.state), site \in Sites :
        /\ lattice' = [lattice EXCEPT !.state = ArraySet(lattice.state, idx, site)]
        /\ last' = [op |-> "index_mut", idx |-> idx, site |-> site]
    /\ Mutated(lattice')
    /\ UNCHANGED <<D, shape, pc, remaining, diffusion_coin>>

\* set_uniform(site)
SetUniform ==
    /\ pc = "idle"
    /\ \E site \in Sites :
        /\ lattice' = SetUniformOf(lattice, site)
        /\ last' = [op |-> "set_uniform", site |-> site, prior |-> SitesOf(lattice)]
    /\ Mutated(lattice')
    /\ UNCHANGED <<D, shape, pc, remaining, diffusion_coin>>

\* set_random(dist, rng)
SetRandom ==
    /\ pc = "idle"
    /\ Small(lattice)
    /\ \E draws \in Draws(SiteCount(lattice)) :
        lattice' = SetRandomOf(lattice, draws)
    /\ last' = [op |-> "set_random"]
    /\ Mutated(lattice')
    /\ UNCHANGED <<D, shape, pc, remaining, diffusion_coin>>

\* reset(UniformSites(site)): UniformSites::reset calls set_uniform.
ResetUniformSites ==
    /\ pc = "idle"
    /\ \E site \in Sites :
        /\ lattice' = SetUniformOf(lattice, site)
        /\ last' = [op |-> "reset_uniform", site |-> site, prior |-> SitesOf(lattice)]
    /\ Mutated(lattice')
    /\ UNCHANGED <<D, shape, pc, remaining, diffusion_coin>>

\* reset(RandomSites(dist, rng)): RandomSites::reset calls set_random.
ResetRandomSites ==
    /\ pc = "idle"
    /\ Small(lattice)
    /\ \E draws \in Draws(SiteCount(lattice)) :
        lattice' = SetRandomOf(lattice, draws)
    /\ last' = [op |-> "reset_random"]
    /\ Mutated(lattice')
    /\ UNCHANGED <<D, shape, pc, remaining, diffusion_coin>>

\* What every read-only call leaves unchanged.
ReadOnly == UNCHANGED <<D, shape, lattice, pc, remaining, diffusion_coin,
                        composition, sweeps, exchanged>>

\* site_count()
CallSiteCount ==
    /\ pc = "idle"
    /\ last' = [op |-> "site_count", ret |-> SiteCount(lattice)]
    /\ ReadOnly

\* sites()
CallSites ==
    /\ pc = "idle"
    /\ last' = [op |-> "sites", ret |-> SitesOf(lattice)]
    /\ ReadOnly

\* nearest_neighbors_index(idx)
CallNearestNeighborsIndex ==
    /\ pc = "idle"
    /\ \E idx \in Indices(lattice.state) :
        last' = [op |-> "nearest_neighbors_index", idx |-> idx,
                 ret |-> NearestNeighborsIndex(D, lattice, idx)]
    /\ ReadOnly

\* nearest_neighbors_index_pairs()
CallNearestNeighborsIndexPairs ==
    /\ pc = "idle"
    /\ last' = [op |-> "nearest_neighbors_index_pairs",
                ret |-> NearestNeighborsIndexPairs(D, lattice)]
    /\ ReadOnly

\* nearest_neighbors(idx)
CallNearestNeighbors ==
    /\ pc = "idle"
    /\ \E idx \in Indices(lattice.state) :
        last' = [op |-> "nearest_neighbors", idx |-> idx,
                 ret |-> NearestNeighbors(D, lattice, idx)]
    /\ ReadOnly

\* nearest_neighbors_pairs()
CallNearestNeighborsPairs ==
    /\ pc = "idle"
    /\ last' = [op |-> "nearest_neighbors_pairs",
                ret |-> NearestNeighborsPairs(D, lattice)]
    /\ ReadOnly

\* diffuse(diffusion_coin, rng) is entered: the range 0..site_count() is fixed.
DiffuseBegin ==
    /\ pc = "idle"
    /\ \E coin \in Coins : diffusion_coin' = coin
    /\ remaining' = SiteCount(lattice)
    /\ pc' = IF remaining' = 0 THEN "idle" ELSE "diffuse"
    /\ last' = [op |-> "diffuse", coin |-> diffusion_coin']
    /\ sweeps' = IF remaining' = 0 THEN Min(sweeps + 1, MaxSweeps) ELSE sweeps
    /\ UNCHANGED <<D, shape, lattice, composition, exchanged>>

\* The loop of diffuse with an iteration that is not counted.
DiffuseStepUncounted ==
    /\ pc = "diffuse"
    /\ remaining > 0
    /\ \E idx \in SampleSupport(lattice) :
        \E nn_idx \in DiffusePartners(D, lattice, idx) :
            \E success \in CoinOutcomes(diffusion_coin) :
                /\ lattice' = DiffuseProposal(lattice, idx, nn_idx, success)
                /\ exchanged' = (exchanged \/ (success /\ ArrayGet(lattice.state, idx)
                                                  # ArrayGet(lattice.state, nn_idx)))
    /\ UNCHANGED <<D, shape, pc, remaining, diffusion_coin, last, composition, sweeps>>

\* One iteration of the loop of diffuse; the call returns after the last one.
DiffuseStep ==
    /\ pc = "diffuse"
    /\ remaining > 0
    /\ \E idx \in SampleSupport(lattice) :
        \E nn_idx \in DiffusePartners(D, lattice, idx) :
            \E success \in CoinOutcomes(diffusion_coin) :
                /\ lattice' = DiffuseProposal(lattice, idx, nn_idx, success)
                /\ exchanged' = (exchanged \/ (success /\ ArrayGet(lattice.state, idx)
                                                  # ArrayGet(lattice.state, nn_idx)))
    /\ remaining' = remaining - 1
    /\ IF remaining' = 0
       THEN /\ pc' = "idle"
            /\ sweeps' = Min(sweeps + 1, MaxSweeps)
       ELSE UNCHANGED <<pc, sweeps>>
    /\ UNCHANGED <<D, shape, diffusion_coin, last, composition>>

\* The driver that mutates and sweeps the lattice.
Next ==
    \/ IndexedWrite
    \/ SetUniform
    \/ SetRandom
    \/ ResetUniformSites
    \/ ResetRandomSites
    \/ CallSiteCount
    \/ CallSites
    \/ DiffuseBegin
    \/ DiffuseStep

Spec == Init /\ [][Next]_vars

\* The driver that only fills and sweeps the lattice.
SweepNext ==
    \/ SetUniform
    \/ SetRandom
    \/ DiffuseBegin
    \/ DiffuseStep

\* The loop of diffuse is straight-line code: once entered, it keeps running.
FairSpec == Init /\ [][SweepNext]_vars /\ WF_vars(DiffuseStep)

\* The driver that only reads the topology of a lattice of any contents.
QueryInit == InitWith(MaxQuerySites)

QueryNext ==
    \/ CallSiteCount
    \/ CallSites
    \/ CallNearestNeighborsIndex
    \/ CallNearestNeighborsIndexPairs
    \/ CallNearestNeighbors
    \/ CallNearestNeighborsPairs

QuerySpec == QueryInit /\ [][QueryNext]_vars

TypeOK ==
    /\ D \in Dimensions
    /\ shape \in 0..MaxLen
    /\ pc \in {"idle", "diffuse", "panicked"}
    /\ remaining \in Nat
    /\ diffusion_coin \in Coins
    /\ sweeps \in 0..MaxSweeps
    /\ exchanged \in BOOLEAN

----------------------------------------------------------------------------
\* Properties.

Alive == pc # "panicked"

\* The coordinates of one axis.
Coords(lat) == 0..(Length(lat) - 1)

\* Adjacency in the periodic grid graph of side length n: the two indices agree
\* on every axis but one, where they are one step apart on the ring.
Adjacent(n, a, b) ==
    \E axis \in 1..Len(a) :
        /\ \A other \in 1..Len(a) : other # axis => a[other] = b[other]
        /\ \/ b[axis] = (a[axis] + 1) % n
           \/ a[axis] = (b[axis] + 1) % n

\* The two ends of a pair, as a set.
Ends(pair) == {pair[1], pair[2]}

InSeq(x, s) == \E p \in 1..Len(s) : s[p] = x

NonUniform(s) == \E p, q \in 1..Len(s) : s[p] # s[q]

\* C1: for every length >= 1 and every i in 0..length, the tables built by
\* Periodicity::new(length) satisfy next(prev(i)) == i and prev(next(i)) == i.
PeriodicityInverse ==
    Alive =>
        \A i \in Coords(lattice) :
            /\ PeriodPrev(lattice.period, i) \in Coords(lattice)
            /\ PeriodNext(lattice.period, i) \in Coords(lattice)
            /\ PeriodNext(lattice.period, PeriodPrev(lattice.period, i)) = i
            /\ PeriodPrev(lattice.period, PeriodNext(lattice.period, i)) = i

PeriodicityInverseWitness ==
    /\ Alive
    /\ Length(lattice) = 3
    /\ last.op = "nearest_neighbors_index"
    /\ last.idx[1] = 0
    /\ last.ret[1][Len(last.ret[1])] = 2

\* A returned list of index pairs holds every edge of the grid graph, and
\* no edge twice in either orientation.
EveryEdgeOnce(n, indices, pairs) ==
    /\ \A p \in 1..Len(pairs) : Adjacent(n, pairs[p][1], pairs[p][2])
    /\ \A p, q \in 1..Len(pairs) : p < q => Ends(pairs[p]) # Ends(pairs[q])
    /\ \A a, b \in indices :
        Adjacent(n, a, b) => \E p \in 1..Len(pairs) : Ends(pairs[p]) = {a, b}

\* C2 as stated: for every side length >= 1, nearest_neighbors_index_pairs()
\* lists every undirected edge of the periodic grid graph exactly once.
EdgesOnceAnyLength ==
    last.op = "nearest_neighbors_index_pairs" =>
        EveryEdgeOnce(Length(lattice), Indices(lattice.state), last.ret)

\* C2 as amended: for every side length >= 3, nearest_neighbors_index_pairs()
\* lists every undirected edge of the periodic grid graph exactly once.
EdgesOnceFromLength3 ==
    (last.op = "nearest_neighbors_index_pairs" /\ Length(lattice) >= 3) =>
        EveryEdgeOnce(Length(lattice), Indices(lattice.state), last.ret)

EdgesOnceWitness ==
    /\ last.op = "nearest_neighbors_index_pairs"
    /\ D = 3
    /\ Length(lattice) = 3
    /\ Len(last.ret) = 81

\* C3: nearest_neighbors_index_pairs() yields exactly D * site_count() pairs,
\* and the two indices of every pair are each among the nearest_neighbors_index
\* of the other.
PairsCountAndMutual ==
    last.op = "nearest_neighbors_index_pairs" =>
        /\ Len(last.ret) = D * SiteCount(lattice)
        /\ \A p \in 1..Len(last.ret) :
            LET a == last.ret[p][1]
                b == last.ret[p][2]
            IN /\ InBounds(lattice.state, a)
               /\ InBounds(lattice.state, b)
               /\ InSeq(b, NearestNeighborsIndex(D, lattice, a))
               /\ InSeq(a, NearestNeighborsIndex(D, lattice, b))

PairsCountWitness ==
    /\ last.op = "nearest_neighbors_index_pairs"
    /\ D = 2
    /\ Length(lattice) = 3
    /\ Len(last.ret) = 18
    /\ NonUniform(SitesOf(lattice))

\* C4: nearest_neighbors_index(idx) returns exactly 2*D entries, each different
\* from idx when the side length is > 2, and the sequence is the one a lattice
\* of the same side length and other contents returns for idx.
NeighborsIndexShape ==
    last.op = "nearest_neighbors_index" =>
        /\ Len(last.ret) = 2 * D
        /\ Length(lattice) > 2 => \A k \in 1..Len(last.ret) : last.ret[k] # last.idx
        /\ \A site \in Sites :
            last.ret = NearestNeighborsIndex(D, Uniform(D, shape, site), last.idx)

NeighborsIndexWitness ==
    /\ last.op = "nearest_neighbors_index"
    /\ D = 2
    /\ Length(lattice) = 3
    /\ NonUniform(SitesOf(lattice))
    /\ Len(last.ret) = 4

\* C5: the k-th value yielded by nearest_neighbors(idx) is the site stored at
\* the k-th index yielded by nearest_neighbors_index(idx).
NeighborsValuesFollowIndex ==
    last.op = "nearest_neighbors" =>
        LET indices == NearestNeighborsIndex(D, lattice, last.idx)
        IN /\ Len(last.ret) = Len(indices)
           /\ \A k \in 1..Len(indices) :
                last.ret[k] = ArrayGet(lattice.state, indices[k])

\* C6: nearest_neighbors_pairs() yields as many items as
\* nearest_neighbors_index_pairs(), and its k-th item is (state[a], state[b])
\* for the k-th index pair (a, b).
PairsValuesFollowIndex ==
    last.op = "nearest_neighbors_pairs" =>
        LET pairs == NearestNeighborsIndexPairs(D, lattice)
        IN /\ Len(last.ret) = Len(pairs)
           /\ \A k \in 1..Len(pairs) :
                last.ret[k] = <<ArrayGet(lattice.state, pairs[k][1]),
                                ArrayGet(lattice.state, pairs[k][2])>>

PairsValuesWitness ==
    /\ last.op = "nearest_neighbors_pairs"
    /\ D = 3
    /\ Length(lattice) = 2
    /\ Len(last.ret) = 24
    /\ \E k \in 1..Len(last.ret) : last.ret[k][1] # last.ret[k][2]

\* C7: the count of each site value after any number of diffuse calls, and
\* inside a call, is the count before the first of them, whatever the coin.
DiffusionConservesComposition ==
    (Alive /\ (pc = "diffuse" \/ sweeps > 0)) =>
        Composition(SitesOf(lattice)) = composition

DiffusionWitness ==
    /\ pc = "idle"
    /\ D = 2
    /\ sweeps >= 2
    /\ exchanged
    /\ last.op = "diffuse"
    /\ NonUniform(SitesOf(lattice))

\* C8: uniform(shape, v) yields a lattice whose every site is v, and
\* set_uniform(v) or reset(UniformSites(v)) on any prior state leaves the shape
\* and contents of a fresh uniform(shape, v).
UniformEverywhere ==
    Alive =>
        /\ last.op = "uniform" =>
            \A idx \in Indices(lattice.state) : ArrayGet(lattice.state, idx) = last.site
        /\ last.op \in {"uniform", "set_uniform", "reset_uniform"} =>
            /\ lattice.state = Uniform(D, shape, last.site).state
            /\ \A p \in 1..Len(SitesOf(lattice)) : SitesOf(lattice)[p] = last.site

UniformAfterResetWitness ==
    /\ last.op = "reset_uniform"
    /\ D = 2
    /\ NonUniform(last.prior)
    /\ Count(last.prior, last.site) = 1
    /\ Len(SitesOf(lattice)) = 4

\* C9: in every state the array shape is [length; D], both Periodicity tables
\* have `length` entries, site_count() is length^D and sites() yields
\* site_count() items.
ShapeInvariant ==
    Alive =>
        /\ lattice.state.dim = Repeat(shape, D)
        /\ Length(lattice) = shape
        /\ Len(lattice.period.prev) = Length(lattice)
        /\ Len(lattice.period.next) = Length(lattice)
        /\ SiteCount(lattice) = Pow(Length(lattice), D)
        /\ Len(SitesOf(lattice)) = SiteCount(lattice)
        /\ last.op = "site_count" => last.ret = Pow(shape, D)
        /\ last.op = "sites" => Len(last.ret) = Pow(shape, D)

ShapeWitness ==
    /\ last.op = "sites"
    /\ D = 3
    /\ Length(lattice) = 3
    /\ sweeps >= 1
    /\ Len(last.ret) = 27

\* The index of the only site of a lattice of side length 1.
Origin == Repeat(0, D)

DegenerateRing ==
    (Alive /\ Length(lattice) = 1) =>
        /\ NearestNeighborsIndex(D, lattice, Origin) = Repeat(Origin, 2 * D)
        /\ NearestNeighborsIndexPairs(D, lattice) = Repeat(<<Origin, Origin>>, D)
        /\ DiffusePartners(D, lattice, Origin) = {Origin}

\* C10: for side length 1 every neighbour of the single site is the site
\* itself, nearest_neighbors_index yields 2*D entries and
\* nearest_neighbors_index_pairs yields D self-pairs, and a diffuse sweep that
\* was entered returns.
DegenerateRingTerminates ==
    /\ []DegenerateRing
    /\ (pc = "diffuse" /\ Length(lattice) = 1) ~> (pc = "idle" /\ last.op = "diffuse")

DegenerateRingWitness ==
    /\ pc = "idle"
    /\ Length(lattice) = 1
    /\ D = 3
    /\ last.op = "diffuse"
    /\ sweeps >= 1

\* C11: side length 0 is rejected: Periodicity::new(0), and with it
\* uniform(0, v) and random(0, dist, rng) in every dimension, panics and
\* returns no Periodicity or lattice value, and nothing is called on one.
ZeroLengthRejected ==
    shape = 0 =>
        /\ PeriodicityNewPanics(shape)
        /\ pc = "panicked"
        /\ DOMAIN lattice = {"state"}
        /\ lattice.state = "none"
        /\ last.op \in {"uniform", "random"}

ZeroLengthWitness ==
    /\ shape = 0
    /\ D = 3
    /\ pc = "panicked"
    /\ last.op = "random"

\* C12: for every length >= 1 the tables of Periodicity::new(length) have
\* `length` entries each, all in 0..length, with next(i) = (i + 1) mod length
\* and prev(i) = (i + length - 1) mod length, so prev[0] = length - 1 and
\* next[length - 1] = 0.
RingTables ==
    Alive =>
        /\ Len(lattice.period.prev) = shape
        /\ Len(lattice.period.next) = shape
        /\ \A i \in 0..(shape - 1) :
            /\ PeriodNext(lattice.period, i) \in 0..(shape - 1)
            /\ PeriodPrev(lattice.period, i) \in 0..(shape - 1)
            /\ PeriodNext(lattice.period, i) = (i + 1) % shape
            /\ PeriodPrev(lattice.period, i) = (i + shape - 1) % shape
        /\ PeriodPrev(lattice.period, 0) = shape - 1
        /\ PeriodNext(lattice.period, shape - 1) = 0

RingTablesWitness ==
    /\ Alive
    /\ shape = 3
    /\ D = 1
    /\ lattice.period = [prev |-> <<2, 0, 1>>, next |-> <<1, 2, 0>>]
    /\ last.op = "nearest_neighbors_index_pairs"
    /\ last.ret[3] = <<<<2>>, <<0>>>>

\* The order the neighbours are specified in: the axes from the innermost to
\* the outermost, and on each axis the prev neighbour and then the next one.
NeighborsInOrder(period, d, idx) ==
    [k \in 1..(2 * d) |->
        LET axis == d - ((k - 1) \div 2)
        IN IF k % 2 = 1
           THEN [idx EXCEPT ![axis] = PeriodPrev(period, idx[axis])]
           ELSE [idx EXCEPT ![axis] = PeriodNext(period, idx[axis])]]

\* C13: nearest_neighbors_index returns 1D [prev(i), next(i)]; 2D [(i,prev(j)),
\* (i,next(j)), (prev(i),j), (next(i),j)]; 3D [(i,j,prev(k)), (i,j,next(k)),
\* (i,prev(j),k), (i,next(j),k), (prev(i),j,k), (next(i),j,k)], with prev and
\* next read from the Periodicity table of the lattice.
NeighborsIndexOrder ==
    last.op = "nearest_neighbors_index" =>
        last.ret = NeighborsInOrder(lattice.period, D, last.idx)

NeighborsIndexOrderWitness ==
    /\ last.op = "nearest_neighbors_index"
    /\ D = 3
    /\ shape = 3
    /\ last.idx = <<0, 1, 2>>
    /\ last.ret = << <<0, 1, 1>>, <<0, 1, 0>>, <<0, 0, 2>>,
                     <<0, 2, 2>>, <<2, 1, 2>>, <<1, 1, 2>> >>

\* idx with the coordinate of one axis replaced by its `next` value.
Forward(lat, idx, axis) == [idx EXCEPT ![axis] = PeriodNext(lat.period, idx[axis])]

\* idx with the coordinate of one axis replaced by its `prev` value.
Backward(lat, idx, axis) == [idx EXCEPT ![axis] = PeriodPrev(lat.period, idx[axis])]

\* Inside a sweep between 1 and site_count() proposals are left, every site a
\* proposal can sample is in range, and its partners are the D forward
\* neighbours and, where prev and next differ, no backward one.
ProposalsForward ==
    pc = "diffuse" =>
        /\ remaining \in 1..SiteCount(lattice)
        /\ \A idx \in SampleSupport(lattice) :
            /\ InBounds(lattice.state, idx)
            /\ DiffusePartners(D, lattice, idx) =
                    {Forward(lattice, idx, axis) : axis \in 1..D}
            /\ Length(lattice) > 2 =>
                    \A axis \in 1..D :
                        Backward(lattice, idx, axis) \notin DiffusePartners(D, lattice, idx)

\* The step exchanged the values of the sites a and b and left the rest alone.
ExchangedAt(a, b) ==
    LET at_a == Offset(lattice.state.dim, a) + 1
        at_b == Offset(lattice.state.dim, b) + 1
        old == SitesOf(lattice)
        new == SitesOf(lattice')
    IN /\ lattice'.state.dim = lattice.state.dim
       /\ lattice'.period = lattice.period
       /\ lattice'.site_dist = lattice.site_dist
       /\ Len(new) = Len(old)
       /\ new[at_a] = old[at_b]
       /\ new[at_b] = old[at_a]
       /\ \A p \in 1..Len(old) : (p # at_a /\ p # at_b) => new[p] = old[p]

\* A call of diffuse starts with site_count() proposals to make; a step inside
\* it makes one proposal, for an in-range site and one of its forward
\* neighbours, exchanges the two values when the coin succeeds and changes
\* nothing when it fails, and returns exactly after the last proposal.
SweepStep ==
    /\ (pc = "idle" /\ pc' = "diffuse") =>
            /\ remaining' = SiteCount(lattice)
            /\ lattice' = lattice
    /\ pc = "diffuse" =>
            /\ remaining' = remaining - 1
            /\ pc' = IF remaining' = 0 THEN "idle" ELSE "diffuse"
            /\ diffusion_coin' = diffusion_coin
            /\ \E success \in CoinOutcomes(diffusion_coin) :
                IF success
                THEN \E idx \in Indices(lattice.state) : \E axis \in 1..D :
                        ExchangedAt(idx, Forward(lattice, idx, axis))
                ELSE lattice' = lattice

\* C14: one diffuse call makes exactly site_count() proposals and then
\* returns; the partner of the sampled in-range site idx is idx with one
\* coordinate replaced by its `next` value (any of the D axes, never a `prev`
\* direction); the two values are swapped if and only if the coin succeeds and
\* all other sites, or with a failed coin the whole lattice, are unchanged.
DiffuseSweepProposals == []ProposalsForward /\ [][SweepStep]_vars

DiffuseSweepWitness ==
    /\ pc = "idle"
    /\ last.op = "diffuse"
    /\ D = 3
    /\ shape = 2
    /\ remaining = 0
    /\ diffusion_coin = "sometimes"
    /\ sweeps >= 1
    /\ exchanged

====
